---- MODULE Spec2Model ----
(***************************************************************************)
(* Modular decomposition (src/md.py): md_tree, divide_md_tree,             *)
(* tree_refinement, factorize, pivot_factorizing_permutation, build_spine  *)
(* and conquer_md_tree, with the Graph, Tree and Partition objects they    *)
(* work on.                                                                *)
(*                                                                         *)
(* Objects live in heaps: Tree[i] is the i-th Tree object created,         *)
(* PartitionClass[i] the i-th PartitionClass object; 0 stands for None.    *)
(* The recursion of divide_md_tree is an explicit stack of frames.         *)
(* Python iterates a set of objects in an order the program does not fix:  *)
(* the pivot next(iter(s)) is any element of s.                            *)
(***************************************************************************)
EXTENDS Integers, Sequences, FiniteSets, TLC

\* Largest number of vertices of the exhaustively enumerated input graphs.
MaxN == 4

None == 0

VARIABLES
    nodes,           \* Graph.nodes: the ids of the graph's vertices
    adjacent,        \* Node.adjacent, per vertex
    alpha,           \* Node.alpha, per vertex
    active_alpha,    \* Node.active_alpha, per vertex
    container,       \* Node.container, per vertex: a Tree id or None
    Tree,            \* heap of Tree objects
    PartitionClass,  \* heap of PartitionClass objects
    head,            \* Partition.head of the one Partition object of a run
    stack,           \* frames of divide_md_tree, innermost last
    cq,              \* locals of the running conquer_md_tree call
    result,          \* the Tree id md_tree returned, None while it runs
    call,            \* which call of md_tree runs, and what the one before
                     \* it returned
    op               \* the call that runs or ran last, and the exception it
                     \* raised ("None" when it raised none)

vars == <<nodes, adjacent, alpha, active_alpha, container, Tree,
          PartitionClass, head, stack, cq, result, call, op>>

----------------------------------------------------------------------------
\* Sequence helpers

Range(seq) == {seq[i] : i \in 1..Len(seq)}

Last(seq) == seq[Len(seq)]

RECURSIVE SeqOfSet(_)
\* The elements of a set of integers in ascending order.
SeqOfSet(S) ==
    IF S = {} THEN <<>>
    ELSE LET m == CHOOSE a \in S : \A b \in S : a <= b
         IN  <<m>> \o SeqOfSet(S \ {m})

RECURSIVE Orders(_)
\* The orders in which the iteration of a Python set may yield its elements.
Orders(S) ==
    IF S = {} THEN {<<>>}
    ELSE UNION {{<<e>> \o o : o \in Orders(S \ {e})} : e \in S}

RECURSIVE Flat(_)
\* Concatenation of a sequence of sequences.
Flat(ss) == IF ss = <<>> THEN <<>> ELSE Head(ss) \o Flat(Tail(ss))

SelectIn(seq, S) == SelectSeq(seq, LAMBDA e : e \in S)

SelectOut(seq, S) == SelectSeq(seq, LAMBDA e : e \notin S)

Max2(a, b) == IF a >= b THEN a ELSE b

MaxOf(S) == CHOOSE a \in S : \A b \in S : b <= a

----------------------------------------------------------------------------
\* Graph

Pairs(n) == {e \in (1..n) \X (1..n) : e[1] < e[2]}

\* The adjacency sets Graph.add_edge builds from a set of edges.
AdjacentOf(n, E) ==
    [v \in 1..n |-> {w \in 1..n : <<v, w>> \in E \/ <<w, v>> \in E}]

closed_neighborhood(x) == adjacent[x] \cup {x}

\* Every graph on the vertices 1..n, for n up to MaxN (n = 0: the graph
\* with no vertices).
SmallGraphs ==
    UNION {{[n |-> n, E |-> E] : E \in SUBSET Pairs(n)} : n \in 0..MaxN}

\* The complete bipartite graph with parts {1,2} and {3,4,5}.
K23 ==
    [n |-> 5, E |-> {<<1, 3>>, <<1, 4>>, <<1, 5>>, <<2, 3>>, <<2, 4>>, <<2, 5>>}]

\* The cycle 2-3-5-6 with the path 5-4-1 hanging off it.
CycleWithTail ==
    [n |-> 6, E |-> {<<1, 4>>, <<2, 3>>, <<2, 6>>, <<3, 5>>, <<4, 5>>, <<5, 6>>}]

\* A graph on seven vertices in which vertex 2 is adjacent to all others.
UniversalVertex ==
    [n |-> 7, E |-> {<<1, 2>>, <<1, 6>>, <<2, 3>>, <<2, 4>>, <<2, 5>>, <<2, 6>>,
                     <<2, 7>>, <<3, 6>>, <<3, 7>>, <<4, 5>>, <<4, 6>>, <<5, 7>>,
                     <<6, 7>>}]

\* A graph on seven vertices in which N(2) = {1,3,4,7} is an independent set.
IndependentNeighbours ==
    [n |-> 7, E |-> {<<1, 2>>, <<1, 5>>, <<2, 3>>, <<2, 4>>, <<2, 7>>, <<3, 6>>,
                     <<4, 5>>, <<5, 6>>, <<6, 7>>}]

\* UniversalVertex with one more vertex, 8, adjacent to all others.
UniversalPair ==
    [n |-> 8, E |-> UniversalVertex.E \cup {<<v, 8>> : v \in 1..7}]

\* Larger input graphs, beside the small ones.
Examples == {K23, CycleWithTail, UniversalVertex, IndependentNeighbours}

----------------------------------------------------------------------------
\* Partition: a doubly linked list of PartitionClass objects

NewPartitionClass(ns) == [nodes |-> ns, previous |-> None, next |-> None]

RECURSIVE ClassesFrom(_, _, _)
\* Partition.__iter__: the classes from c on, following next.
ClassesFrom(pc, c, seen) ==
    IF c = None \/ c \in seen THEN <<>>
    ELSE <<c>> \o ClassesFrom(pc, pc[c].next, seen \cup {c})

Classes(pc, hd) == ClassesFrom(pc, hd, {})

\* The node sets of the classes of the partition, first class first.
ClassSets(pc, hd) ==
    [i \in 1..Len(Classes(pc, hd)) |-> pc[Classes(pc, hd)[i]].nodes]

flatten(pc, hd) == UNION {pc[c].nodes : c \in Range(Classes(pc, hd))}

\* Partition.prepend of a new class with the given nodes: <<heap, head>>.
prepend(pc, hd, ns) ==
    LET c   == Len(pc) + 1
        new == NewPartitionClass(ns)
    IN  IF hd # None
        THEN <<Append([pc EXCEPT ![hd].previous = c], [new EXCEPT !.next = hd]), c>>
        ELSE <<Append(pc, new), c>>

\* pop_first that leaves the previous link of the new head in place.
pop_first_KeepPrevious(pc, hd) ==
    IF pc[hd].next # None
    THEN <<[pc EXCEPT ![hd].next = None], pc[hd].next>>
    ELSE <<pc, None>>

\* Partition.pop_first on a non-empty partition: <<heap, head>>.
pop_first(pc, hd) ==
    IF pc[hd].next # None
    THEN <<[pc EXCEPT ![pc[hd].next].previous = None, ![hd].next = None],
           pc[hd].next>>
    ELSE <<pc, None>>

\* replace without the last two assignments: class b is not linked to the
\* class that followed the old one.
replace_Unlinked(pc, hd, old, a, b) ==
    LET ca  == Len(pc) + 1
        cb  == Len(pc) + 2
        p0  == pc \o <<[NewPartitionClass(a) EXCEPT !.next = cb],
                       [NewPartitionClass(b) EXCEPT !.previous = ca]>>
        p1  == IF pc[old].previous = None THEN p0
               ELSE [p0 EXCEPT ![pc[old].previous].next = ca,
                               ![ca].previous = pc[old].previous]
        h1  == IF pc[old].previous = None THEN ca ELSE hd
    IN  <<p1, h1>>

\* Partition.replace of class old by new classes with nodes a and b.
replace(pc, hd, old, a, b) ==
    LET ca  == Len(pc) + 1
        cb  == Len(pc) + 2
        p0  == pc \o <<[NewPartitionClass(a) EXCEPT !.next = cb],
                       [NewPartitionClass(b) EXCEPT !.previous = ca]>>
        p1  == IF pc[old].previous = None THEN p0
               ELSE [p0 EXCEPT ![pc[old].previous].next = ca,
                               ![ca].previous = pc[old].previous]
        h1  == IF pc[old].previous = None THEN ca ELSE hd
        p2  == IF pc[old].next # None
               THEN [p1 EXCEPT ![pc[old].next].previous = cb,
                               ![cb].next = pc[old].next]
               ELSE p1
    IN  <<p2, h1>>

\* RefineFrom that leaves the loop after the first class: the classes
\* behind it are not split by the neighbourhood of the pivot.
RefineFrom_FirstOnly(pc, hd, c, adjx, fuel) ==
    IF c = None \/ fuel = 0 THEN <<pc, hd>>
    ELSE LET a == pc[c].nodes \cap adjx
             b == pc[c].nodes \ a
         IN  IF a # {} /\ b # {} THEN replace(pc, hd, c, a, b)
             ELSE <<pc, hd>>

RECURSIVE RefineFrom(_, _, _, _, _)
\* The loop of divide_md_tree over the classes of p: every class is split
\* by the neighbourhood of the pivot; the iteration goes on from the next
\* link of the class it holds.
RefineFrom(pc, hd, c, adjx, fuel) ==
    IF c = None \/ fuel = 0 THEN <<pc, hd>>
    ELSE LET a == pc[c].nodes \cap adjx
             b == pc[c].nodes \ a
             r == IF a # {} /\ b # {} THEN replace(pc, hd, c, a, b)
                  ELSE <<pc, hd>>
         IN  RefineFrom(r[1], r[2], r[1][c].next, adjx, fuel - 1)

----------------------------------------------------------------------------
\* Tree objects

NoConnectivity == <<-1, "None">>

\* Tree.__init__
NewTree(node_type, node, component) ==
    [type |-> node_type, node |-> node, component |-> component,
     parent |-> None, children |-> <<>>,
     is_marked |-> FALSE, label |-> "None", connectivity |-> NoConnectivity,
     mu |-> -1, rho |-> -1, mark_count |-> 0, tree_index |-> -1]


RECURSIVE RemoveFirst(_, _)
\* list.remove: the list without the first occurrence of e.
RemoveFirst(seq, e) ==
    IF seq = <<>> THEN <<>>
    ELSE IF Head(seq) = e THEN Tail(seq)
    ELSE <<Head(seq)>> \o RemoveFirst(Tail(seq), e)

RECURSIVE Iter(_, _)
\* Tree.__iter__: the nodes of the tree rooted in u, depth first, as the
\* children lists stand in heap T.
Iter(T, u) ==
    <<u>> \o Flat([i \in 1..Len(T[u].children) |-> Iter(T, T[u].children[i])])

\* Tree.leaves
leaves(T, u) == SelectSeq(Iter(T, u), LAMBDA t : T[t].type = "NODE")

\* The vertices held by the leaves of the tree rooted in u.
LeafNodes(T, u) == {T[t].node : t \in Range(leaves(T, u))}

RECURSIVE ancestors(_, _)
\* Tree.ancestors, bottom up.
ancestors(T, u) ==
    IF T[u].parent = None THEN <<>>
    ELSE <<T[u].parent>> \o ancestors(T, T[u].parent)

RECURSIVE get_root(_, _)
\* Tree.get_root
get_root(T, u) == IF T[u].parent # None THEN get_root(T, T[u].parent) ELSE u

\* Tree.is_degenerate
is_degenerate(T, u) == T[u].type = "PARALLEL" \/ T[u].type = "SERIES"

\* Tree.insert
insert(T, u, child) ==
    [T EXCEPT ![u].children = Append(@, child), ![child].parent = u]

RECURSIVE InsertAll(_, _, _)
\* insert called for each element of a list in turn.
InsertAll(T, u, cs) ==
    IF cs = <<>> THEN T ELSE InsertAll(insert(T, u, Head(cs)), u, Tail(cs))

RECURSIVE MoveChildren(_, _, _, _)
\* The loop of Tree.replace_children: each child is inserted into new_node
\* and removed from the children of u.
MoveChildren(T, u, new_node, cs) ==
    IF cs = <<>> THEN T
    ELSE LET T1 == insert(T, new_node, Head(cs))
             T2 == [T1 EXCEPT ![u].children = RemoveFirst(@, Head(cs))]
         IN  MoveChildren(T2, u, new_node, Tail(cs))

\* replace_children that takes tree_index from nowhere: the new node keeps
\* the value of Tree.__init__.
replace_children_NoIndex(T, u, cs) ==
    LET new_node == Len(T) + 1
        T0 == Append(T, NewTree(T[u].type, None, {}))
        T1 == MoveChildren(T0, u, new_node, cs)
    IN  <<insert(T1, u, new_node), new_node>>

\* Tree.replace_children: <<heap, the new node>>.
replace_children(T, u, cs) ==
    LET new_node == Len(T) + 1
        T0 == Append(T, [NewTree(T[u].type, None, {}) EXCEPT
                            !.tree_index = T[cs[1]].tree_index])
        T1 == MoveChildren(T0, u, new_node, cs)
    IN  <<insert(T1, u, new_node), new_node>>

\* Tree.group_children with group_fn given as the set of nodes it accepts.
group_children(T, u, hits) ==
    <<SelectIn(T[u].children, hits), SelectOut(T[u].children, hits)>>

RECURSIVE LabelLeaves(_, _, _)
\* leaf.connectivity = c for each leaf of a list.
LabelLeaves(T, ls, c) ==
    IF ls = <<>> THEN T
    ELSE LabelLeaves([T EXCEPT ![Head(ls)].connectivity = c], Tail(ls), c)

RECURSIVE LabelChildren(_, _, _, _)
\* The loop of label_by_component over the children of the root.
LabelChildren(T, cs, connectivity, n) ==
    IF cs = <<>> THEN <<T, n>>
    ELSE LabelChildren(LabelLeaves(T, leaves(T, Head(cs)), <<n, connectivity>>),
                       Tail(cs), connectivity, n + 1)

\* label_by_component with the two root types exchanged: the children of
\* a SERIES root are taken for components, those of a PARALLEL root for
\* co-components.
label_by_component_Exchanged(T, u, connectivity, number_of_components) ==
    IF \/ T[u].type = "SERIES" /\ connectivity = "COMPONENT"
       \/ T[u].type = "PARALLEL" /\ connectivity = "CO_COMPONENT"
    THEN LabelChildren(T, T[u].children, connectivity, number_of_components)
    ELSE <<LabelLeaves(T, leaves(T, u), <<number_of_components, connectivity>>),
           number_of_components + 1>>

\* Tree.label_by_component: <<heap, number of (co-)components>>.
label_by_component(T, u, connectivity, number_of_components) ==
    IF \/ T[u].type = "PARALLEL" /\ connectivity = "COMPONENT"
       \/ T[u].type = "SERIES" /\ connectivity = "CO_COMPONENT"
    THEN LabelChildren(T, T[u].children, connectivity, number_of_components)
    ELSE <<LabelLeaves(T, leaves(T, u), <<number_of_components, connectivity>>),
           number_of_components + 1>>

----------------------------------------------------------------------------
\* md_tree and divide_md_tree

\* The frame of a call divide_md_tree(s, p); p is kept as the sequence of
\* the node sets of the classes p has when the call is made.
NewFrame(s, p) ==
    [s |-> s, p |-> p, x |-> None, trees |-> <<>>, pc |-> "pivot"]

NoSigma == [pivot |-> None, co_components |-> <<>>, components |-> <<>>]

NoConquer ==
    [k |-> 0, k_ |-> 0, trees_ |-> <<>>, a |-> 0, b |-> 0, all_leaves |-> {},
     todo |-> <<>>, sigma |-> NoSigma, l |-> 0, r |-> 0, tree |-> None]

top == stack[Len(stack)]

At(pc) == stack # <<>> /\ top.pc = pc

SetTop(f) == [stack EXCEPT ![Len(stack)] = f]

\* A call of divide_md_tree returns tree t: the caller appends it to its
\* list of trees; md_tree returns it when there is no caller.
ReturnTo(t) ==
    IF Len(stack) = 1 THEN <<>>
    ELSE [SubSeq(stack, 1, Len(stack) - 1) EXCEPT
             ![Len(stack) - 1].trees = Append(@, t)]

\* The state in which md_tree(graph) is called on a new Graph object with
\* vertices 1..n and adjacency sets adj.
Called(n, adj) ==
    /\ nodes = 1..n
    /\ adjacent = adj
    /\ alpha = [v \in 1..n |-> {}]
    /\ active_alpha = [v \in 1..n |-> {}]
    /\ container = [v \in 1..n |-> None]
    /\ Tree = <<>>
    /\ PartitionClass = <<>>
    /\ head = None
    /\ stack = <<NewFrame(1..n, <<>>)>>
    /\ cq = NoConquer
    /\ result = None

\* The record of a call: its name, its arguments (None where it has none)
\* and the exception it raised.
Op(name, u, v, raised) == [name |-> name, u |-> u, v |-> v, raised |-> raised]

\* md_tree(graph) is called on one of the input graphs.
Init ==
    /\ \E g \in SmallGraphs \cup Examples : Called(g.n, AdjacentOf(g.n, g.E))
    /\ call = [mode |-> "first", pi |-> <<>>,
               prev |-> [modules |-> {}, internal |-> 0]]
    /\ op = Op("md_tree", None, None, "None")

\* divide_md_tree: the pivot is chosen and added to the alpha set of its
\* neighbours in S and S'. next(iter(s)) raises StopIteration when S is
\* empty, and nothing catches it.
ChoosePivot ==
    /\ At("pivot")
    /\ IF top.s = {}
       THEN /\ stack' = SetTop([top EXCEPT !.pc = "StopIteration"])
            /\ op' = [op EXCEPT !.raised = "StopIteration"]
            /\ UNCHANGED alpha
       ELSE /\ \E x \in top.s :
                 LET s_ == flatten(PartitionClass, head)
                 IN  /\ alpha' = [y \in nodes |->
                                    IF y \in adjacent[x] \cap (top.s \cup s_)
                                    THEN alpha[y] \cup {x} ELSE alpha[y]]
                     /\ stack' = SetTop([top EXCEPT !.x = x, !.pc = "refine"])
            /\ UNCHANGED op
    /\ UNCHANGED <<nodes, adjacent, active_alpha, container, Tree,
                   PartitionClass, head, cq, result, call>>

\* divide_md_tree: every class of the partition is refined by N(x).
RefinePartition ==
    /\ At("refine")
    /\ LET r == RefineFrom(PartitionClass, head, head, adjacent[top.x],
                           Len(PartitionClass) + 1)
       IN  /\ PartitionClass' = r[1]
           /\ head' = r[2]
    /\ stack' = SetTop([top EXCEPT !.pc = "split"])
    /\ UNCHANGED <<nodes, adjacent, alpha, active_alpha, container, Tree,
                   cq, result, call, op>>

\* divide_md_tree: S = {x}, the leaf of x is returned.
ReturnLeaf ==
    /\ At("split")
    /\ Cardinality(top.s) = 1 /\ top.x \in top.s
    /\ LET tree_x == Len(Tree) + 1
       IN  /\ Tree' = Append(Tree, NewTree("NODE", top.x, {}))
           /\ container' = [container EXCEPT ![top.x] = tree_x]
           /\ stack' = ReturnTo(tree_x)
           /\ result' = IF Len(stack) = 1 THEN tree_x ELSE result
    /\ UNCHANGED <<nodes, adjacent, alpha, active_alpha, PartitionClass,
                   head, cq, call, op>>

\* Prepend with N(x) & S computed in place (x.adjacent &= s): the pivot
\* loses its neighbours outside S.
Prepend_InPlace ==
    /\ At("split")
    /\ ~(Cardinality(top.s) = 1 /\ top.x \in top.s)
    /\ LET s  == top.s
           x  == top.x
           nn == s \ (closed_neighborhood(x) \cap s)
           p1 == IF nn # {} THEN prepend(PartitionClass, head, nn)
                 ELSE <<PartitionClass, head>>
           p2 == IF adjacent[x] \cap s # {}
                 THEN prepend(p1[1], p1[2], adjacent[x] \cap s)
                 ELSE p1
           tree_x == Len(Tree) + 1
       IN  /\ PartitionClass' = p2[1]
           /\ head' = p2[2]
           /\ Tree' = Append(Tree, NewTree("NODE", x, {}))
           /\ container' = [container EXCEPT ![x] = tree_x]
           /\ stack' = SetTop([top EXCEPT !.trees = <<tree_x>>, !.pc = "loop"])
           /\ adjacent' = [adjacent EXCEPT ![x] = @ \cap s]
    /\ UNCHANGED <<nodes, alpha, active_alpha, cq, result, call, op>>

\* divide_md_tree: the non-neighbours and then the neighbours of x in S are
\* prepended to the partition, and the list of trees starts with the leaf x.
Prepend ==
    /\ At("split")
    /\ ~(Cardinality(top.s) = 1 /\ top.x \in top.s)
    /\ LET s  == top.s
           x  == top.x
           nn == s \ (closed_neighborhood(x) \cap s)
           p1 == IF nn # {} THEN prepend(PartitionClass, head, nn)
                 ELSE <<PartitionClass, head>>
           p2 == IF adjacent[x] \cap s # {}
                 THEN prepend(p1[1], p1[2], adjacent[x] \cap s)
                 ELSE p1
           tree_x == Len(Tree) + 1
       IN  /\ PartitionClass' = p2[1]
           /\ head' = p2[2]
           /\ Tree' = Append(Tree, NewTree("NODE", x, {}))
           /\ container' = [container EXCEPT ![x] = tree_x]
           /\ stack' = SetTop([top EXCEPT !.trees = <<tree_x>>, !.pc = "loop"])
    /\ UNCHANGED <<nodes, adjacent, alpha, active_alpha, cq, result, call, op>>

\* The guard of the while loop of divide_md_tree.
FirstClassInS ==
    head # None /\ PartitionClass[head].nodes \subseteq top.s

\* divide_md_tree: the first class is popped and divide_md_tree is called
\* on it.
Recurse ==
    /\ At("loop")
    /\ FirstClassInS
    /\ LET r == pop_first(PartitionClass, head)
       IN  /\ PartitionClass' = r[1]
           /\ head' = r[2]
           /\ stack' = Append(SetTop([top EXCEPT !.pc = "loop"]),
                              NewFrame(PartitionClass[head].nodes,
                                       ClassSets(r[1], r[2])))
    /\ UNCHANGED <<nodes, adjacent, alpha, active_alpha, container, Tree,
                   cq, result, call, op>>


----------------------------------------------------------------------------
\* conquer_md_tree: the choice of k' and the labelling of the leaves

RECURSIVE LabelTrees(_, _, _, _, _)
\* The labelling loop of conquer_md_tree over T1..Tk': <<heap, a, b>>.
LabelTrees(T, trees_, i, a, b) ==
    IF i > Len(trees_) - 1 THEN <<T, a, b>>
    ELSE IF i = 1
    THEN LET r == label_by_component(T, trees_[i + 1], "CO_COMPONENT", 0)
         IN  LabelTrees(r[1], trees_, i + 1, r[2], b)
    ELSE LET r == label_by_component(T, trees_[i + 1], "COMPONENT", b)
         IN  LabelTrees(r[1], trees_, i + 1, a, r[2])

\* The vertices of the leaves of a list of trees.
AllLeaves(T, ts) == UNION {LeafNodes(T, ts[i]) : i \in 1..Len(ts)}

\* ConquerBegin without the test of alpha(y): k' = k, the graph is always
\* taken for connected.
ConquerBegin_Connected ==
    /\ At("loop")
    /\ ~FirstClassInS
    /\ LET trees == top.trees
           all_leaves_except_last_tree ==
               AllLeaves(Tree, SubSeq(trees, 1, Len(trees) - 1))
           k  == Len(trees) - 1
           y  == Head(leaves(Tree, Last(trees)))
           k_ == k
           trees_ == SubSeq(trees, 1, k_ + 1)
           lab == LabelTrees(Tree, trees_, 1, 0, 0)
       IN  /\ Tree' = lab[1]
           /\ cq' = [NoConquer EXCEPT !.k = k, !.k_ = k_, !.trees_ = trees_,
                                      !.a = lab[2], !.b = lab[3]]
    /\ stack' = SetTop([top EXCEPT !.pc = "refinement"])
    /\ UNCHANGED <<nodes, adjacent, alpha, active_alpha, container,
                   PartitionClass, head, result, call, op>>

\* conquer_md_tree is entered when the loop of divide_md_tree ends: k' is
\* chosen from the alpha set of the first leaf of Tk and the leaves of
\* T1..Tk' are labelled by their (co-)component.
ConquerBegin ==
    /\ At("loop")
    /\ ~FirstClassInS
    /\ LET trees == top.trees
           all_leaves_except_last_tree ==
               AllLeaves(Tree, SubSeq(trees, 1, Len(trees) - 1))
           k  == Len(trees) - 1
           y  == Head(leaves(Tree, Last(trees)))
           k_ == IF alpha[Tree[y].node] \cap all_leaves_except_last_tree # {}
                 THEN k ELSE k - 1
           trees_ == SubSeq(trees, 1, k_ + 1)
           lab == LabelTrees(Tree, trees_, 1, 0, 0)
       IN  /\ Tree' = lab[1]
           /\ cq' = [NoConquer EXCEPT !.k = k, !.k_ = k_, !.trees_ = trees_,
                                      !.a = lab[2], !.b = lab[3]]
    /\ stack' = SetTop([top EXCEPT !.pc = "refinement"])
    /\ UNCHANGED <<nodes, adjacent, alpha, active_alpha, container,
                   PartitionClass, head, result, call, op>>

----------------------------------------------------------------------------
\* tree_refinement

RECURSIVE SetTreeIndex(_, _, _)
\* u.tree_index = i for every node u of a list.
SetTreeIndex(T, us, i) ==
    IF us = <<>> THEN T
    ELSE SetTreeIndex([T EXCEPT ![Head(us)].tree_index = i], Tail(us), i)

RECURSIVE IndexTrees(_, _, _)
\* Every node of the i-th tree (counted from 0) gets tree_index i.
IndexTrees(T, trees, i) ==
    IF i > Len(trees) THEN T
    ELSE IndexTrees(SetTreeIndex(T, Iter(T, trees[i]), i - 1), trees, i + 1)

\* tree_refinement: all_leaves is computed and the nodes are indexed; the
\* leaves are then visited tree by tree (todo: <<index of the tree in
\* trees_, leaves of that tree still to visit>>).
RefinementBegin ==
    /\ At("refinement")
    /\ Tree' = IndexTrees(Tree, cq.trees_, 1)
    /\ cq' = [cq EXCEPT !.all_leaves = AllLeaves(Tree, cq.trees_),
                        !.todo = <<1, leaves(Tree, cq.trees_[1])>>]
    /\ stack' = SetTop([top EXCEPT !.pc = "refine_leaf"])
    /\ UNCHANGED <<nodes, adjacent, alpha, active_alpha, container,
                   PartitionClass, head, result, call, op>>

RECURSIVE MarkLeaves(_, _, _)
\* The first loop over active_alpha: st = [T, marked_nodes, U], U being
\* unmarked_nodes_with_a_marked_child.
MarkLeaves(st, ns, cont) ==
    IF ns = <<>> THEN st
    ELSE LET c  == cont[Head(ns)]
             T1 == [st.T EXCEPT ![c].is_marked = TRUE]
             p  == T1[c].parent
         IN  IF p # None
             THEN MarkLeaves([st EXCEPT
                                 !.T = [T1 EXCEPT ![p].mark_count = @ + 1],
                                 !.U = @ \cup {p}],
                             Tail(ns), cont)
             ELSE MarkLeaves([st EXCEPT !.T = T1], Tail(ns), cont)

RECURSIVE MarkAncestors(_, _)
\* The while loop that walks up from the parent of a marked leaf.
MarkAncestors(st, parent) ==
    IF parent = None THEN st
    ELSE LET T == st.T
             pp == T[parent].parent
         IN  IF T[parent].mark_count = Len(T[parent].children)
             THEN LET inc == pp # None /\ ~T[parent].is_marked
                      T1  == IF inc THEN [T EXCEPT ![pp].mark_count = @ + 1]
                             ELSE T
                      U1  == IF inc /\ ~T1[pp].is_marked
                             THEN st.U \cup {pp} ELSE st.U
                  IN  MarkAncestors(
                          [T |-> [T1 EXCEPT ![parent].is_marked = TRUE],
                           marked_nodes |-> st.marked_nodes \cup {parent},
                           U |-> U1 \ {parent}],
                          pp)
             ELSE IF \E i \in 1..Len(T[parent].children) :
                         T[T[parent].children[i]].is_marked
                  THEN [st EXCEPT !.U = @ \cup {parent}]
                  ELSE st

RECURSIVE MarkFrom(_, _)
\* The loop over marked_leaves.
MarkFrom(st, ls) ==
    IF ls = <<>> THEN st
    ELSE MarkFrom(MarkAncestors(st, st.T[Head(ls)].parent), Tail(ls))

\* The nodes of heap T that carry a mark.
Marked(T) == {t \in 1..Len(T) : T[t].is_marked}

\* SplitNode with the two tests "len > 1" weakened to "len > 0": a single
\* marked or unmarked child is wrapped in a new node too.
SplitNode_WrapSingle(T, u) ==
    LET g  == group_children(T, u, Marked(T))
        a  == g[1]
        b  == g[2]
        ra == IF Len(a) > 0 /\ is_degenerate(T, u)
              THEN LET r == replace_children(T, u, a)
                   IN  [r[1] EXCEPT ![r[2]].is_marked = TRUE]
              ELSE T
        rb == IF Len(b) > 0 /\ is_degenerate(ra, u)
              THEN LET r == replace_children(ra, u, b)
                   IN  [r[1] EXCEPT ![r[2]].is_marked = FALSE]
              ELSE ra
    IN  IF rb[u].label # "DEAD"
        THEN LET h == group_children(rb, u, Marked(rb))
             IN  [rb EXCEPT ![u].label = "DEAD",
                            ![u].children = IF rb[u].tree_index = 1
                                            THEN h[1] \o h[2]
                                            ELSE h[2] \o h[1]]
        ELSE rb

\* The body of the loop over unmarked_nodes_with_a_marked_child for node u.
SplitNode(T, u) ==
    LET g  == group_children(T, u, Marked(T))
        a  == g[1]
        b  == g[2]
        ra == IF Len(a) > 1 /\ is_degenerate(T, u)
              THEN LET r == replace_children(T, u, a)
                   IN  [r[1] EXCEPT ![r[2]].is_marked = TRUE]
              ELSE T
        rb == IF Len(b) > 1 /\ is_degenerate(ra, u)
              THEN LET r == replace_children(ra, u, b)
                   IN  [r[1] EXCEPT ![r[2]].is_marked = FALSE]
              ELSE ra
    IN  IF rb[u].label # "DEAD"
        THEN LET h == group_children(rb, u, Marked(rb))
             IN  [rb EXCEPT ![u].label = "DEAD",
                            ![u].children = IF rb[u].tree_index = 1
                                            THEN h[1] \o h[2]
                                            ELSE h[2] \o h[1]]
        ELSE rb

RECURSIVE SplitNodes(_, _)
\* The loop over unmarked_nodes_with_a_marked_child.
SplitNodes(T, us) ==
    IF us = <<>> THEN T ELSE SplitNodes(SplitNode(T, Head(us)), Tail(us))

\* The marks and mark counters of the nodes of a set are cleared.
ClearMarks(T, S) ==
    [t \in 1..Len(T) |->
        IF t \in S THEN [T[t] EXCEPT !.is_marked = FALSE, !.mark_count = 0]
        ELSE T[t]]

\* The marking of the loop body of tree_refinement for a leaf whose vertex
\* has active alpha set act, the marked leaves being visited in order ml.
\* (The first loop only sets marks and adds to counters and to U: its result
\* is the same in every order of act.)
MarkBody(T, act, cont, ml) ==
    MarkFrom(MarkLeaves([T |-> T, marked_nodes |-> {}, U |-> {}],
                        SeqOfSet(act), cont), ml)

\* The splitting and the clean up of the loop body, after marking st, the
\* nodes of U being visited in order us.
SplitBody(st, act, cont, us) ==
    ClearMarks(SplitNodes(st.T, us),
               {cont[v] : v \in act} \cup st.marked_nodes \cup st.U)

\* tree_refinement: one pass of the loop body, for the next leaf y.
RefineLeaf ==
    /\ At("refine_leaf")
    /\ cq.todo[2] # <<>>
    /\ LET y   == Tree[Head(cq.todo[2])].node
           act == alpha[y] \cap cq.all_leaves
       IN  /\ active_alpha' = [active_alpha EXCEPT ![y] = act]
           /\ alpha' = [alpha EXCEPT ![y] = alpha[y] \ act]
           /\ \E ml \in Orders({container[v] : v \in act}) :
                LET st == MarkBody(Tree, act, container, ml)
                IN  \E us \in Orders(st.U) :
                        Tree' = SplitBody(st, act, container, us)
    /\ cq' = [cq EXCEPT !.todo = <<cq.todo[1], Tail(cq.todo[2])>>]
    /\ UNCHANGED <<nodes, adjacent, container, PartitionClass, head, stack,
                   result, call, op>>

\* tree_refinement: the leaves of a tree are exhausted and the loop goes on
\* with the next tree.
RefineNextTree ==
    /\ At("refine_leaf")
    /\ cq.todo[2] = <<>>
    /\ cq.todo[1] < Len(cq.trees_)
    /\ cq' = [cq EXCEPT !.todo = <<cq.todo[1] + 1,
                                   leaves(Tree, cq.trees_[cq.todo[1] + 1])>>]
    /\ UNCHANGED <<nodes, adjacent, alpha, active_alpha, container, Tree,
                   PartitionClass, head, stack, result, call, op>>


----------------------------------------------------------------------------
\* factorize

Labelled(T) == {t \in 1..Len(T) : T[t].label = "DEAD" \/ T[t].label = "ZOMBIE"}

RECURSIVE LabelAncestors(_, _)
\* The ancestors in list as are labelled ZOMBIE unless DEAD, up to the first
\* one that is a ZOMBIE already.
LabelAncestors(T, as) ==
    IF as = <<>> \/ T[Head(as)].label = "ZOMBIE" THEN T
    ELSE IF T[Head(as)].label # "DEAD"
    THEN LabelAncestors([T EXCEPT ![Head(as)].label = "ZOMBIE"], Tail(as))
    ELSE LabelAncestors(T, Tail(as))

RECURSIVE LabelZombies(_, _)
\* The loop over the DEAD nodes of a tree.
LabelZombies(T, us) ==
    IF us = <<>> THEN T
    ELSE LabelZombies(LabelAncestors(T, ancestors(T, Head(us))), Tail(us))

\* The body of the loop over the ZOMBIE nodes, for node u of tree i.
OrderZombie(T, u, i) ==
    LET g  == group_children(T, u, Labelled(T))
        T1 == IF Len(g[2]) > 1 /\ is_degenerate(T, u)
              THEN replace_children(T, u, g[2])[1]
              ELSE T
        h  == group_children(T1, u, Labelled(T1))
    IN  [T1 EXCEPT ![u].children = IF i = 1 THEN h[1] \o h[2]
                                   ELSE h[2] \o h[1]]

RECURSIVE OrderZombies(_, _, _)
RECURSIVE OrderZombiesIn(_, _, _)
\* The loop over nodes_by_label(ZOMBIE): the generator yields u, the body
\* runs, and the traversal goes on through the children u has then.
OrderZombies(T, u, i) ==
    LET T1 == IF T[u].label = "ZOMBIE" THEN OrderZombie(T, u, i) ELSE T
    IN  OrderZombiesIn(T1, T1[u].children, i)

OrderZombiesIn(T, cs, i) ==
    IF cs = <<>> THEN T
    ELSE OrderZombiesIn(OrderZombies(T, Head(cs), i), Tail(cs), i)

RECURSIVE DetachChildren(_, _)
\* child.parent = None for the children in a list.
DetachChildren(T, cs) ==
    IF cs = <<>> THEN T
    ELSE DetachChildren([T EXCEPT ![Head(cs)].parent = None], Tail(cs))

RECURSIVE ClearLabels(_, _)
\* The last loop of factorize over the nodes of a tree.
ClearLabels(T, us) ==
    IF us = <<>> THEN T
    ELSE LET t == Head(us)
         IN  IF T[t].label = "DEAD" \/ T[t].label = "ZOMBIE"
             THEN ClearLabels(DetachChildren([T EXCEPT ![t].label = "None"],
                                             T[t].children),
                              Tail(us))
             ELSE ClearLabels(T, Tail(us))

\* The body of the loop of factorize for tree_i, the i-th tree from 0.
FactorizeTree(T, tree_i, i) ==
    LET dead == SelectSeq(Iter(T, tree_i), LAMBDA t : T[t].label = "DEAD")
        T1 == LabelZombies(T, dead)
        T2 == OrderZombies(T1, tree_i, i)
    IN  ClearLabels(T2, Iter(T2, tree_i))

RECURSIVE FactorizeTrees(_, _, _)
\* The loop of factorize over the trees.
FactorizeTrees(T, trees, i) ==
    IF i > Len(trees) THEN T
    ELSE FactorizeTrees(FactorizeTree(T, trees[i], i - 1), trees, i + 1)

\* factorize(trees_), entered when tree_refinement has visited every leaf.
Factorize ==
    /\ At("refine_leaf")
    /\ cq.todo[2] = <<>>
    /\ cq.todo[1] >= Len(cq.trees_)
    /\ Tree' = FactorizeTrees(Tree, cq.trees_, 1)
    /\ cq' = [cq EXCEPT !.todo = <<>>]
    /\ stack' = SetTop([top EXCEPT !.pc = "permutation"])
    /\ UNCHANGED <<nodes, adjacent, alpha, active_alpha, container,
                   PartitionClass, head, result, call, op>>

----------------------------------------------------------------------------
\* pivot_factorizing_permutation

RECURSIVE GroupBy(_, _, _)
\* itertools.groupby on the connectivity label, each group as a set: runs
\* of consecutive leaves with equal labels.
GroupBy(T, ls, acc) ==
    IF ls = <<>> THEN acc
    ELSE IF acc # <<>> /\
            T[Head(ls)].connectivity = T[CHOOSE t \in Last(acc) : TRUE].connectivity
    THEN GroupBy(T, Tail(ls),
                 [acc EXCEPT ![Len(acc)] = @ \cup {Head(ls)}])
    ELSE GroupBy(T, Tail(ls), Append(acc, {Head(ls)}))

Reverse(seq) == [i \in 1..Len(seq) |-> seq[Len(seq) + 1 - i]]

\* is_adjacent
is_adjacent(T, u, v) == T[u].node \in adjacent[T[v].node]

\* is_adjacent_to_component(any, ...)
AnyAdjacent(T, node, component) == \E n \in component : is_adjacent(T, node, n)

\* is_adjacent_to_component(all, ...)
AllAdjacent(T, node, component) == \A n \in component : is_adjacent(T, node, n)

RECURSIVE MuCoComponent(_, _, _, _)
\* The while loop that computes mu(y) for a leaf y of T1.
MuCoComponent(T, y, components, j) ==
    IF j > 0 /\ ~AnyAdjacent(T, y, components[j])
    THEN MuCoComponent(T, y, components, j - 1) ELSE j

RECURSIVE MuComponent(_, _, _, _)
\* The while loop that computes mu(y) for a leaf y of Ti, i > 1.
MuComponent(T, y, co_components, j) ==
    IF j > 0 /\ AllAdjacent(T, y, co_components[j])
    THEN MuComponent(T, y, co_components, j - 1) ELSE j

RECURSIVE Rho(_, _, _, _, _)
\* The for loop that computes rho(y) for y in component i.
Rho(T, y, components, j, i) ==
    IF j <= i THEN 0
    ELSE IF AnyAdjacent(T, y, components[j]) THEN j
    ELSE Rho(T, y, components, j - 1, i)

\* The index of the group that holds leaf y.
GroupOf(groups, y) == CHOOSE i \in 1..Len(groups) : y \in groups[i]

\* pivot_factorizing_permutation(trees): <<heap, sigma>>.
pivot_factorizing_permutation(T, trees) ==
    LET l1 == IF Len(trees) >= 2 THEN leaves(T, trees[2]) ELSE <<>>
        l2 == Flat([i \in 1..(Len(trees) - 2) |-> leaves(T, trees[i + 2])])
        co_components == Reverse(GroupBy(T, l1, <<>>))
        components == GroupBy(T, l2, <<>>)
        a == Len(co_components)
        b == Len(components)
        T1 == [t \in 1..Len(T) |->
                 IF t \in Range(l1)
                 THEN [T[t] EXCEPT !.mu = MuCoComponent(T, t, components, b)]
                 ELSE IF t \in Range(l2)
                 THEN [T[t] EXCEPT
                          !.mu = MuComponent(T, t, co_components, a),
                          !.rho = Rho(T, t, components, b,
                                      GroupOf(components, t))]
                 ELSE T[t]]
    IN  <<T1,
          [pivot |-> trees[1],
           co_components |->
               [i \in 1..a |->
                   [co_component |-> co_components[i],
                    mu |-> MaxOf({T1[n].mu : n \in co_components[i]})]],
           components |->
               [i \in 1..b |->
                   [component |-> components[i],
                    mu |-> MaxOf({T1[n].mu : n \in components[i]}),
                    rho |-> MaxOf({T1[n].rho : n \in components[i]})]]]>>

\* conquer_md_tree: sigma = pivot_factorizing_permutation(trees_).
PivotFactorizingPermutation ==
    /\ At("permutation")
    /\ LET r == pivot_factorizing_permutation(Tree, cq.trees_)
       IN  /\ Tree' = r[1]
           /\ cq' = [cq EXCEPT !.sigma = r[2], !.l = 0, !.r = 0,
                               !.tree = r[2].pivot]
    /\ stack' = SetTop([top EXCEPT !.pc = "spine"])
    /\ UNCHANGED <<nodes, adjacent, alpha, active_alpha, container,
                   PartitionClass, head, result, call, op>>


----------------------------------------------------------------------------
\* build_spine

\* SeriesEnd whose loop takes no co-component.
SeriesEnd_None(sigma, l, r) == l - 1

RECURSIVE SeriesEnd(_, _, _)
\* The while loop that locates a SERIES module: the last l such that the
\* co-components up to l have mu = r.
SeriesEnd(sigma, l, r) ==
    IF l <= Len(sigma.co_components) /\ sigma.co_components[l].mu = r
    THEN SeriesEnd(sigma, l + 1, r) ELSE l - 1

RECURSIVE ParallelEnd(_, _, _)
\* The while loop that locates a PARALLEL module.
ParallelEnd(sigma, l, r) ==
    IF r <= Len(sigma.components) /\ sigma.components[r].mu = l
                                  /\ sigma.components[r].rho = 0
    THEN ParallelEnd(sigma, l, r + 1) ELSE r - 1

RECURSIVE PrimeLimits(_, _, _, _, _)
\* The loop that widens the limits t and m of a PRIME module until they are
\* stable; ok is FALSE when an index leaves the lists (IndexError).
PrimeLimits(sigma, l_, r_, t, m) ==
    IF m > Len(sigma.components) \/ t > Len(sigma.co_components)
    THEN [t |-> t, m |-> m, ok |-> FALSE]
    ELSE LET t1 == Max2(MaxOf({sigma.components[i].mu : i \in r_..m}), t)
         IN  IF t1 > Len(sigma.co_components)
             THEN [t |-> t1, m |-> m, ok |-> FALSE]
             ELSE LET m1 == Max2(Max2(
                                MaxOf({sigma.co_components[i].mu : i \in l_..t1}),
                                MaxOf({sigma.components[i].rho : i \in r_..m})), m)
                  IN  IF t = t1 /\ m = m1
                      THEN [t |-> t1, m |-> m1,
                            ok |-> m1 <= Len(sigma.components)]
                      ELSE PrimeLimits(sigma, t, m, t1, m1)

\* The module one iteration of build_spine identifies, from indices l and r:
\* the new indices, and which co-components and components it takes.
SpineModule(sigma, l, r) ==
    LET a  == Len(sigma.co_components)
        b  == Len(sigma.components)
        ls == SeriesEnd(sigma, l + 1, r)
        rp == ParallelEnd(sigma, ls, r + 1)
    IN  IF ls > l
        THEN [l |-> ls, r |-> r, cc |-> (l + 1)..ls, c |-> {}, ok |-> TRUE]
        ELSE IF rp > r
        THEN [l |-> l, r |-> rp, cc |-> {}, c |-> (r + 1)..rp, ok |-> TRUE]
        ELSE IF l + 1 > a \/ r + 1 > b
        THEN [l |-> l + 1, r |-> r + 1, cc |-> {}, c |-> {}, ok |-> FALSE]
        ELSE LET l1 == l + 1
                 r1 == r + 1
                 t  == Max2(sigma.components[r1].mu, l1)
                 m  == Max2(Max2(sigma.co_components[l1].mu,
                                 sigma.components[r1].rho), r1)
                 f  == PrimeLimits(sigma, l1, r1, t, m)
             IN  [l |-> f.t, r |-> f.m, cc |-> l1..f.t, c |-> r1..f.m,
                  ok |-> f.ok]

\* InsertPlaceholders that stops after the first element of the module.
InsertPlaceholders_First(T, u, module) ==
    IF module = <<>> THEN T
    ELSE insert(Append(T, NewTree("NODE", None, Head(module))), u, Len(T) + 1)

RECURSIVE InsertPlaceholders(_, _, _)
\* u.insert(Tree(Type.NODE, element)) for each element of the module.
InsertPlaceholders(T, u, module) ==
    IF module = <<>> THEN T
    ELSE InsertPlaceholders(
             insert(Append(T, NewTree("NODE", None, Head(module))),
                    u, Len(T) + 1),
             u, Tail(module))

\* SpineNode with the types of the degenerate nodes exchanged: PARALLEL for
\* a module of co-components, SERIES for a module of components.
SpineNode_Exchanged(T, sigma, mod, tree) ==
    LET u  == Len(T) + 1
        module == [i \in 1..Cardinality(mod.cc) |->
                      sigma.co_components[SeqOfSet(mod.cc)[i]].co_component]
                  \o [i \in 1..Cardinality(mod.c) |->
                      sigma.components[SeqOfSet(mod.c)[i]].component]
        type == IF mod.c = {} THEN "PARALLEL"
                ELSE IF mod.cc = {} THEN "SERIES" ELSE "PRIME"
        T1 == InsertPlaceholders(Append(T, NewTree("NODE", None, {})), u, module)
    IN  insert([T1 EXCEPT ![u].type = type], u, tree)

\* The node build_spine creates for a module and puts above tree.
SpineNode(T, sigma, mod, tree) ==
    LET u  == Len(T) + 1
        module == [i \in 1..Cardinality(mod.cc) |->
                      sigma.co_components[SeqOfSet(mod.cc)[i]].co_component]
                  \o [i \in 1..Cardinality(mod.c) |->
                      sigma.components[SeqOfSet(mod.c)[i]].component]
        type == IF mod.c = {} THEN "SERIES"
                ELSE IF mod.cc = {} THEN "PARALLEL" ELSE "PRIME"
        T1 == InsertPlaceholders(Append(T, NewTree("NODE", None, {})), u, module)
    IN  insert([T1 EXCEPT ![u].type = type], u, tree)

\* build_spine: one iteration of the outer loop.
BuildSpineStep ==
    /\ At("spine")
    /\ cq.l # Len(cq.sigma.co_components) \/ cq.r # Len(cq.sigma.components)
    /\ LET mod == SpineModule(cq.sigma, cq.l, cq.r)
       IN  IF mod.ok
           THEN /\ Tree' = SpineNode(Tree, cq.sigma, mod, cq.tree)
                /\ cq' = [cq EXCEPT !.l = mod.l, !.r = mod.r,
                                    !.tree = Len(Tree) + 1]
                /\ stack' = stack
           ELSE /\ stack' = SetTop([top EXCEPT !.pc = "IndexError"])
                /\ UNCHANGED <<Tree, cq>>
    /\ UNCHANGED <<nodes, adjacent, alpha, active_alpha, container,
                   PartitionClass, head, result, call, op>>

----------------------------------------------------------------------------
\* conquer_md_tree: from the spine to the returned tree

\* The leaves of the spine that hold a (co-)component instead of a vertex.
Placeholders(T, tree) ==
    SelectSeq(leaves(T, tree), LAMBDA t : T[t].node = None)

RECURSIVE ReplaceOne(_, _, _)
\* The loop over the nodes of the component of one placeholder leaf:
\* st = [T, replaced, not_replaced].
ReplaceOne(st, leaf, ts) ==
    IF ts = <<>> THEN st
    ELSE LET t == Head(ts)
         IN  IF t \in st.replaced \/ t \notin st.not_replaced
             THEN ReplaceOne(st, leaf, Tail(ts))
             ELSE LET root == get_root(st.T, t)
                      ls   == Range(leaves(st.T, root))
                  IN  ReplaceOne(
                          [T |-> insert(st.T, st.T[leaf].parent, root),
                           replaced |-> st.replaced \cup ls,
                           not_replaced |-> st.not_replaced \ ls],
                          leaf, Tail(ts))

RECURSIVE ReplaceAll(_, _, _)
\* The loop over the leaves of the spine that replaces the (co-)components
\* by the trees of their nodes: the heaps it can end with, one for each
\* choice of the orders in which the components (frozensets) are iterated.
ReplaceAll(T, replaced, phs) ==
    IF phs = <<>> THEN {T}
    ELSE LET leaf == Head(phs)
         IN  UNION {LET st == ReplaceOne([T |-> T, replaced |-> replaced,
                                          not_replaced |-> T[leaf].component],
                                         leaf, order)
                    IN  ReplaceAll(st.T, st.replaced, Tail(phs))
                    : order \in Orders(T[leaf].component)}

\* RemoveAll without the removal: the placeholder leaves stay in the
\* children lists of their parents.
RemoveAll_Kept(T, phs) == T

RECURSIVE RemoveAll(_, _)
\* leaf.parent.children.remove(leaf) for each placeholder leaf.
RemoveAll(T, phs) ==
    IF phs = <<>> THEN T
    ELSE RemoveAll([T EXCEPT ![T[Head(phs)].parent].children =
                                 RemoveFirst(@, Head(phs))],
                   Tail(phs))

\* conquer_md_tree: build_spine has returned; the (co-)components are
\* replaced by the trees of their nodes and then removed.
ReplaceComponents ==
    /\ At("spine")
    /\ cq.l = Len(cq.sigma.co_components) /\ cq.r = Len(cq.sigma.components)
    /\ \E T1 \in ReplaceAll(Tree, {}, Placeholders(Tree, cq.tree)) :
         Tree' = RemoveAll(T1, Placeholders(T1, cq.tree))
    /\ stack' = SetTop([top EXCEPT !.pc = "glue"])
    /\ UNCHANGED <<nodes, adjacent, alpha, active_alpha, container,
                   PartitionClass, head, cq, result, call, op>>

\* GlueLastTree without "new_node.insert(trees[k])": the last tree is left
\* out of the new PARALLEL node.
GlueLastTree_Dropped(T, tree, tk) ==
    IF T[tk].type = "PARALLEL"
    THEN <<insert(T, tk, tree), tk>>
    ELSE LET new_node == Len(T) + 1
         IN  <<insert(Append(T, NewTree("PARALLEL", None, {})), new_node, tree),
               new_node>>

\* The update of the tree when G is disconnected (k' = k - 1), tk being
\* the last tree Tk: <<heap, tree>>.
GlueLastTree(T, tree, tk) ==
    IF T[tk].type = "PARALLEL"
    THEN <<insert(T, tk, tree), tk>>
    ELSE LET new_node == Len(T) + 1
         IN  <<insert(insert(Append(T, NewTree("PARALLEL", None, {})),
                             new_node, tree), new_node, tk),
               new_node>>

\* conquer_md_tree: Tk is put beside the tree when G is disconnected.
Glue ==
    /\ At("glue")
    /\ IF cq.k_ = cq.k - 1
       THEN LET r == GlueLastTree(Tree, cq.tree, top.trees[cq.k + 1])
            IN  /\ Tree' = r[1]
                /\ cq' = [cq EXCEPT !.tree = r[2]]
       ELSE UNCHANGED <<Tree, cq>>
    /\ stack' = SetTop([top EXCEPT !.pc = "normalize"])
    /\ UNCHANGED <<nodes, adjacent, alpha, active_alpha, container,
                   PartitionClass, head, result, call, op>>

\* The body of the last loop of conquer_md_tree for node t_node.
MergeIntoParent(T, t_node) ==
    LET parent == T[t_node].parent
    IN  IF parent # None /\ T[t_node].type = T[parent].type
                         /\ is_degenerate(T, t_node)
        THEN LET T1 == InsertAll(T, parent, T[t_node].children)
             IN  [T1 EXCEPT ![parent].children = RemoveFirst(@, t_node)]
        ELSE T

RECURSIVE Normalize(_, _)
RECURSIVE NormalizeFrom(_, _, _)
\* The last loop of conquer_md_tree, run by the generator Tree.__iter__:
\* the body runs for u, then the iteration of u.children goes on by index
\* through the list as it stands at each step.
Normalize(T, u) == NormalizeFrom(MergeIntoParent(T, u), u, 1)

NormalizeFrom(T, u, i) ==
    IF i > Len(T[u].children) THEN T
    ELSE NormalizeFrom(Normalize(T, T[u].children[i]), u, i + 1)

\* conquer_md_tree: degenerate nodes are merged into a parent of their type.
NormalizeTree ==
    /\ At("normalize")
    /\ Tree' = Normalize(Tree, cq.tree)
    /\ stack' = SetTop([top EXCEPT !.pc = "return"])
    /\ UNCHANGED <<nodes, adjacent, alpha, active_alpha, container,
                   PartitionClass, head, cq, result, call, op>>

\* conquer_md_tree and divide_md_tree return the tree.
Return ==
    /\ At("return")
    /\ stack' = ReturnTo(cq.tree)
    /\ result' = IF Len(stack) = 1 THEN cq.tree ELSE result
    /\ cq' = NoConquer
    /\ UNCHANGED <<nodes, adjacent, alpha, active_alpha, container, Tree,
                   PartitionClass, head, call, op>>

Next ==
    \/ ChoosePivot
    \/ RefinePartition
    \/ ReturnLeaf
    \/ Prepend
    \/ Recurse
    \/ ConquerBegin
    \/ RefinementBegin
    \/ RefineLeaf
    \/ RefineNextTree
    \/ Factorize
    \/ PivotFactorizingPermutation
    \/ BuildSpineStep
    \/ ReplaceComponents
    \/ Glue
    \/ NormalizeTree
    \/ Return

Spec == Init /\ [][Next]_vars

\* md_tree(graph) is called on UniversalPair, a graph with a slice of seven
\* vertices.
InitLarge ==
    /\ Called(UniversalPair.n, AdjacentOf(UniversalPair.n, UniversalPair.E))
    /\ call = [mode |-> "first", pi |-> <<>>,
               prev |-> [modules |-> {}, internal |-> 0]]
    /\ op = Op("md_tree", None, None, "None")

SpecLarge == InitLarge /\ [][Next]_vars

----------------------------------------------------------------------------
\* A second call of md_tree, on a graph derived from the first one

\* What a returned tree is up to the order of children: the leaf set and
\* the type of every internal node, and the number of internal nodes.
ShapeOf(T, root) ==
    LET inner == {u \in Range(Iter(T, root)) : T[u].type # "NODE"}
    IN  [modules |-> {<<LeafNodes(T, u), T[u].type>> : u \in inner},
         internal |-> Cardinality(inner)]

\* The bijections of 1..n the vertices are relabelled by: the identity, the
\* exchange of 1 and 2, and the rotation v -> v + 1.
Relabelings(n) ==
    {[v \in 1..n |-> v],
     [v \in 1..n |-> IF n >= 2 /\ v = 1 THEN 2 ELSE IF v = 2 THEN 1 ELSE v],
     [v \in 1..n |-> (v % n) + 1]}

\* md_tree has returned and is called on a new Graph object with adjacency
\* sets adj.
CalledAgain(mode, pi, adj) ==
    /\ call.mode = "first"
    /\ result # None
    /\ call' = [mode |-> mode, pi |-> pi, prev |-> ShapeOf(Tree, result)]
    /\ adjacent' = adj
    /\ alpha' = [v \in nodes |-> {}]
    /\ active_alpha' = [v \in nodes |-> {}]
    /\ container' = [v \in nodes |-> None]
    /\ Tree' = <<>>
    /\ PartitionClass' = <<>>
    /\ head' = None
    /\ stack' = <<NewFrame(nodes, <<>>)>>
    /\ cq' = NoConquer
    /\ result' = None
    /\ UNCHANGED <<nodes, op>>

\* md_tree is called on the complement of the graph.
CallComplement ==
    \E pi \in {[v \in nodes |-> v]} :
        CalledAgain("complement", pi,
                    [v \in nodes |-> nodes \ (adjacent[v] \cup {v})])

\* md_tree is called on the graph with its vertices relabelled by pi.
CallRelabelled ==
    \E pi \in Relabelings(Cardinality(nodes)) :
        CalledAgain("relabelled", pi,
                    [w \in nodes |->
                        {pi[u] : u \in adjacent[CHOOSE v \in nodes : pi[v] = w]}])

NextTwice == Next \/ CallComplement \/ CallRelabelled

SpecTwice == Init /\ [][NextTwice]_vars


----------------------------------------------------------------------------
\* Graph notions the properties are stated in

\* M is a module of the graph: no vertex outside M tells two vertices of M
\* apart.
IsModule(M) ==
    \A w \in nodes \ M : adjacent[w] \cap M = {} \/ M \subseteq adjacent[w]

Modules == {M \in SUBSET nodes : M # {} /\ IsModule(M)}

Overlap(M, N) == M \cap N # {} /\ M \ N # {} /\ N \ M # {}

\* The strong modules of the graph: the modules that overlap no module.
StrongModules == {M \in Modules : \A N \in Modules : ~Overlap(M, N)}

RECURSIVE ReachIn(_, _, _)
\* The vertices of M reachable from the set R inside M, along edges
\* (co = FALSE) or along non-edges (co = TRUE).
ReachIn(M, R, co) ==
    LET more == {w \in M \ R : \E v \in R : (w \in adjacent[v]) # co}
    IN  IF more = {} THEN R ELSE ReachIn(M, R \cup more, co)

\* The subgraph induced by M (its complement, for co = TRUE) is connected.
ConnectedIn(M, co) == \A v \in M : ReachIn(M, {v}, co) = M

\* The nodes of the returned tree.
ResultNodes == IF result = None THEN {} ELSE Range(Iter(Tree, result))

Internal == {u \in ResultNodes : Tree[u].type # "NODE"}

LeafSet(u) == LeafNodes(Tree, u)

\* The input graph is g.
IsG(g) == nodes = 1..g.n /\ adjacent = AdjacentOf(g.n, g.E)

\* md_tree has returned, in the first call.
Returned == result # None /\ call.mode = "first"

\* The vertices at the leaves of the returned tree, from left to right.
ResultLeaves == [i \in 1..Len(leaves(Tree, result)) |->
                    Tree[leaves(Tree, result)[i]].node]

\* The label the induced subgraph on M calls for.
LabelOf(M) ==
    IF ~ConnectedIn(M, FALSE) THEN "PARALLEL"
    ELSE IF ~ConnectedIn(M, TRUE) THEN "SERIES"
    ELSE "PRIME"

\* No SERIES or PARALLEL node below root has a parent of its own type.
Normalized(T, root) ==
    \A u \in Range(Iter(T, root)) :
        (u # root /\ T[u].type \in {"SERIES", "PARALLEL"} /\ T[u].parent # None)
            => T[T[u].parent].type # T[u].type

\* The triangle 1-2-3 with the isolated vertex 4.
TriangleAndIsolated == [n |-> 4, E |-> {<<1, 2>>, <<1, 3>>, <<2, 3>>}]

----------------------------------------------------------------------------
\* The returned tree

\* C1: for every internal node u of the tree md_tree returns, every vertex
\* outside the leaf set L(u) is adjacent to all of L(u) or to none of it.
C1_ModuleProperty ==
    Returned => \A u \in Internal : IsModule(LeafSet(u))

\* C2: the leaves of the returned tree are the vertices of the graph, each
\* exactly once, and none of them is a placeholder.
C2_Leaves ==
    Returned =>
        /\ \A t \in Range(leaves(Tree, result)) :
               Tree[t].node # None /\ Tree[t].component = {}
        /\ Range(ResultLeaves) = nodes
        /\ Len(ResultLeaves) = Cardinality(nodes)

\* C2 witness: a tree on four vertices with a nested internal node has been
\* returned, so placeholders were put on a spine and replaced.
C2_Witness ==
    /\ Returned
    /\ Cardinality(nodes) = 4
    /\ Cardinality(Internal) >= 2
    /\ Len(ResultLeaves) = 4

\* C3: the leaf sets of the internal nodes of the returned tree are exactly
\* the strong modules with two vertices or more; a graph (of three vertices
\* or more) has no non-trivial module exactly when the root is PRIME with
\* one leaf child per vertex.
C3_StrongModules ==
    Returned =>
        /\ {LeafSet(u) : u \in Internal}
               = {M \in StrongModules : Cardinality(M) >= 2}
        /\ Cardinality(nodes) >= 3 =>
               ((\A M \in Modules : Cardinality(M) \in {1, Cardinality(nodes)})
                <=> /\ Tree[result].type = "PRIME"
                    /\ Len(Tree[result].children) = Cardinality(nodes)
                    /\ \A c \in Range(Tree[result].children) :
                           Tree[c].type = "NODE")

\* C4: an internal node is PARALLEL exactly when the subgraph induced by its
\* leaf set is disconnected, SERIES exactly when the complement of that
\* subgraph is disconnected, and PRIME exactly when both are connected.
C4_Labels ==
    Returned => \A u \in Internal : Tree[u].type = LabelOf(LeafSet(u))

\* C5: in the tree md_tree returns, and in the tree every conquer_md_tree
\* call returns, no SERIES or PARALLEL node has a parent of its own type.
C5_Normalized ==
    /\ At("return") => Normalized(Tree, cq.tree)
    /\ Returned => Normalized(Tree, result)

\* C6: every internal node of the returned tree has two children or more.
C6_TwoChildren ==
    Returned => \A u \in Internal : Len(Tree[u].children) >= 2

\* C6 witness: a tree with an internal node below the root has been
\* returned.
C6_Witness ==
    /\ Returned
    /\ \E u \in Internal : u # result /\ Len(Tree[u].children) >= 2

\* C7: the tree of the complement graph has the same internal nodes with
\* the same leaf sets as the tree of the graph, with SERIES and PARALLEL
\* exchanged and PRIME kept.
C7_Complement ==
    (call.mode = "complement" /\ result # None) =>
        ShapeOf(Tree, result) =
            [modules |-> {<<m[1], CASE m[2] = "SERIES" -> "PARALLEL"
                                   [] m[2] = "PARALLEL" -> "SERIES"
                                   [] OTHER -> m[2]>> : m \in call.prev.modules},
             internal |-> call.prev.internal]

\* C8: the tree of the graph relabelled by a bijection pi is the tree of
\* the graph with every leaf relabelled by pi, up to the order of children;
\* so the tree does not depend on the pivots.
C8_Relabelling ==
    (call.mode = "relabelled" /\ result # None) =>
        ShapeOf(Tree, result) =
            [modules |-> {<<{call.pi[v] : v \in m[1]}, m[2]>> :
                             m \in call.prev.modules},
             internal |-> call.prev.internal]

\* C9 as stated: for the complete bipartite graph K2,3 the returned root is
\* PRIME and its children are the five leaves.
C9_K23Prime ==
    (Returned /\ IsG(K23)) =>
        /\ Tree[result].type = "PRIME"
        /\ Len(Tree[result].children) = 5
        /\ \A c \in Range(Tree[result].children) : Tree[c].type = "NODE"

\* C9: for the complete bipartite graph K2,3 the returned root is SERIES
\* and has two children, a PARALLEL node over the leaves 1, 2 and a PARALLEL
\* node over the leaves 3, 4, 5.
C9_K23Series ==
    (Returned /\ IsG(K23)) =>
        /\ Tree[result].type = "SERIES"
        /\ Len(Tree[result].children) = 2
        /\ {<<Tree[c].type, LeafSet(c), Len(Tree[c].children)>> :
                c \in Range(Tree[result].children)}
               = {<<"PARALLEL", {1, 2}, 2>>, <<"PARALLEL", {3, 4, 5}, 3>>}

\* C9 witness: md_tree has returned on K2,3.
C9_Witness == Returned /\ IsG(K23)

\* C10: for the triangle 1-2-3 with the isolated vertex 4, the returned
\* root is PARALLEL and has two children, a SERIES node over the leaves
\* 1, 2, 3 and the leaf 4, whichever pivots are chosen.
C10_TriangleAndIsolated ==
    (Returned /\ IsG(TriangleAndIsolated)) =>
        /\ Tree[result].type = "PARALLEL"
        /\ Len(Tree[result].children) = 2
        /\ {<<Tree[c].type, LeafSet(c), Len(Tree[c].children)>> :
                c \in Range(Tree[result].children)}
               = {<<"SERIES", {1, 2, 3}, 3>>, <<"NODE", {4}, 0>>}

\* C10 witness: md_tree has returned on that graph with the isolated
\* vertex as the first pivot, which leaves the leaf 4 as the first child.
C10_Witness ==
    /\ Returned
    /\ IsG(TriangleAndIsolated)
    /\ Tree[Tree[result].children[1]].node = 4

----------------------------------------------------------------------------
\* The Graph class: a graph is built by add_node, add_edge and remove_node

\* Graph.add_node(Node(v)) on adjacency sets adj: a node with no neighbour
\* is added unless the id is in the graph already.
add_node(adj, v) ==
    IF v \in DOMAIN adj THEN adj
    ELSE [w \in DOMAIN adj \cup {v} |-> IF w = v THEN {} ELSE adj[w]]

\* Graph.add_edge(u, v): the missing nodes are created, then each node is
\* added to the adjacent set of the other.
add_edge(adj, u, v) ==
    LET a == add_node(add_node(adj, u), v)
    IN  [w \in DOMAIN a |->
            a[w] \cup (IF w = u THEN {v} ELSE {}) \cup (IF w = v THEN {u} ELSE {})]

\* Graph.remove_node(v) for a node of the graph: v leaves the adjacent set
\* of every other node, and the dictionary.
remove_node(adj, v) == [w \in DOMAIN adj \ {v} |-> adj[w] \ {v}]

\* Graph(): no node yet, and no call of md_tree.
InitGraph ==
    /\ nodes = {}
    /\ adjacent = <<>>
    /\ alpha = <<>>
    /\ active_alpha = <<>>
    /\ container = <<>>
    /\ Tree = <<>>
    /\ PartitionClass = <<>>
    /\ head = None
    /\ stack = <<>>
    /\ cq = NoConquer
    /\ result = None
    /\ call = [mode |-> "graph", pi |-> <<>>,
               prev |-> [modules |-> {}, internal |-> 0]]
    /\ op = Op("Graph", None, None, "None")

\* The graph becomes the one with adjacency sets adj; a new Node object
\* has empty alpha sets and no container.
GraphBecomes(adj) ==
    /\ nodes' = DOMAIN adj
    /\ adjacent' = adj
    /\ alpha' = [w \in DOMAIN adj |-> IF w \in nodes THEN alpha[w] ELSE {}]
    /\ active_alpha' =
           [w \in DOMAIN adj |-> IF w \in nodes THEN active_alpha[w] ELSE {}]
    /\ container' =
           [w \in DOMAIN adj |-> IF w \in nodes THEN container[w] ELSE None]
    /\ UNCHANGED <<Tree, PartitionClass, head, stack, cq, result, call>>

AddNode ==
    \E v \in 1..MaxN :
        /\ GraphBecomes(add_node(adjacent, v))
        /\ op' = Op("add_node", v, None, "None")

AddEdge ==
    \E u \in 1..MaxN, v \in 1..MaxN :
        /\ GraphBecomes(add_edge(adjacent, u, v))
        /\ op' = Op("add_edge", u, v, "None")

\* del self.nodes[node_id] raises KeyError for an id that is not in the
\* graph, after a loop that found nothing to remove.
RemoveNode ==
    \E v \in 1..MaxN :
        IF v \in nodes
        THEN /\ GraphBecomes(remove_node(adjacent, v))
             /\ op' = Op("remove_node", v, None, "None")
        ELSE /\ GraphBecomes(adjacent)
             /\ op' = Op("remove_node", v, None, "KeyError")

NextGraph == AddNode \/ AddEdge \/ RemoveNode

SpecGraph == InitGraph /\ [][NextGraph]_vars

----------------------------------------------------------------------------
\* Errors and the Graph class

\* C11: md_tree on a graph with no vertices fails with the EmptyGraph
\* error: once the call has left its first statement, EmptyGraph is raised.
C11_EmptyGraph ==
    (nodes = {} /\ op.name = "md_tree" /\ ~At("pivot"))
        => op.raised = "EmptyGraph"

\* C12: add_edge(u, u), and add_edge(u, v) for an edge the graph has
\* already, fail with the InvalidGraph error and leave the graph unchanged.
C12_InvalidGraph ==
    [][(/\ op'.name = "add_edge"
        /\ \/ op'.u = op'.v
           \/ op'.u \in nodes /\ op'.v \in adjacent[op'.u])
       => (op'.raised = "InvalidGraph" /\ UNCHANGED <<nodes, adjacent>>)]_vars

\* C13: after any sequence of add_node, add_edge and remove_node calls, v
\* is in u.adjacent exactly when u is in v.adjacent, no vertex is in its
\* own adjacent set, and every adjacent set holds vertices of the graph
\* only.
C13_Adjacency ==
    \A u \in nodes :
        /\ u \notin adjacent[u]
        /\ adjacent[u] \subseteq nodes
        /\ \A v \in adjacent[u] : u \in adjacent[v]

----------------------------------------------------------------------------
\* Frame conditions and scratch fields

\* C14: no step of md_tree (divide, refinement, factorization, spine
\* construction, conquer) changes the vertex set of the graph or the
\* adjacent set of a vertex.
C14_GraphUnchanged == [][UNCHANGED <<nodes, adjacent>>]_vars

\* C14 witness: md_tree has returned the PRIME tree of a path on four
\* vertices, so every step has run on a graph with edges.
C14_Witness ==
    /\ Returned
    /\ Cardinality(nodes) = 4
    /\ Tree[result].type = "PRIME"
    /\ \A v \in nodes : adjacent[v] # {}

\* C15: when md_tree returns, alpha and active_alpha are empty and
\* container is unset for every vertex, and on every node of the returned
\* tree is_marked is False, mark_count is 0, label is None, and tree_index,
\* connectivity, mu and rho are unset.
C15_ScratchReset ==
    Returned =>
        /\ \A v \in nodes :
               alpha[v] = {} /\ active_alpha[v] = {} /\ container[v] = None
        /\ \A u \in ResultNodes :
               LET new == NewTree(Tree[u].type, Tree[u].node, {})
               IN  /\ Tree[u].is_marked = new.is_marked
                   /\ Tree[u].mark_count = new.mark_count
                   /\ Tree[u].label = new.label
                   /\ Tree[u].tree_index = new.tree_index
                   /\ Tree[u].connectivity = new.connectivity
                   /\ Tree[u].mu = new.mu
                   /\ Tree[u].rho = new.rho

\* The nodes of the slice trees of the running conquer_md_tree call.
SliceNodes == UNION {Range(Iter(Tree, cq.trees_[i])) : i \in 1..Len(cq.trees_)}

\* C16: whenever tree_refinement is between two leaves, or has processed
\* the last one, every node of every slice tree, the nodes made by
\* splitting a degenerate node included, has is_marked = False and
\* mark_count = 0.
C16_MarksCleared ==
    At("refine_leaf") =>
        \A u \in SliceNodes : ~Tree[u].is_marked /\ Tree[u].mark_count = 0

----------------------------------------------------------------------------
\* The labelling step of conquer_md_tree

\* The slice trees T1..Tk' of the running call, as indices into trees_.
Slices == 2..Len(cq.trees_)

\* The leaves of a slice tree, grouped by their connectivity label: the
\* sets of vertices that carry one label.
LabelGroups(root) ==
    LET ls == Range(leaves(Tree, root))
    IN  {{Tree[m].node : m \in {n \in ls : Tree[n].connectivity
                                            = Tree[l].connectivity}} : l \in ls}

\* The leaf sets of the children of a node.
ChildSets(root) ==
    {LeafNodes(Tree, Tree[root].children[i]) :
        i \in 1..Len(Tree[root].children)}

\* C17 as stated: after the labelling, a PARALLEL root of T1 has given one
\* co-component per child, a SERIES root of Ti (i >= 2) one component per
\* child, and any other root one (co-)component with all its leaves.
C17_AsStated ==
    At("refinement") =>
        \A i \in Slices :
            LET root == cq.trees_[i]
            IN  LabelGroups(root) =
                    IF Tree[root].type = (IF i = 2 THEN "PARALLEL" ELSE "SERIES")
                    THEN ChildSets(root)
                    ELSE {LeafNodes(Tree, root)}

\* C17: after the labelling, a SERIES root of T1 has given one co-component
\* per child, a PARALLEL root of Ti (i >= 2) one component per child, and
\* any other root one (co-)component with all its leaves.
C17_LabelByRoot ==
    At("refinement") =>
        \A i \in Slices :
            LET root == cq.trees_[i]
            IN  LabelGroups(root) =
                    IF Tree[root].type = (IF i = 2 THEN "SERIES" ELSE "PARALLEL")
                    THEN ChildSets(root)
                    ELSE {LeafNodes(Tree, root)}

\* C17 witness: the labelling has run on slice trees of which T1 has a
\* SERIES root and a later one a PARALLEL root.
C17_Witness ==
    /\ At("refinement")
    /\ Len(cq.trees_) >= 3
    /\ Tree[cq.trees_[2]].type = "SERIES"
    /\ \E i \in Slices : i >= 3 /\ Tree[cq.trees_[i]].type = "PARALLEL"

\* Vertices u and v of M are in one component of G[M] (one co-component,
\* for co = TRUE).
SameComponent(M, u, v, co) == v \in ReachIn(M, {u}, co)

\* The components (co-components, for co = TRUE) of G[M].
ComponentsOf(M, co) == {ReachIn(M, {v}, co) : v \in M}

\* C18: after the labelling step, two leaves of T1 carry the same label
\* exactly when their vertices are in one co-component of G[L1], two
\* leaves of T2..Tk' exactly when they are in one slice and in one
\* component of the subgraph the slice induces; a and b are the numbers of
\* those co-components and components.
C18_Labelling ==
    At("refinement") =>
        /\ \A i \in Slices, j \in Slices :
               (i = 2) = (j = 2) =>
                   \A l \in Range(leaves(Tree, cq.trees_[i])),
                      m \in Range(leaves(Tree, cq.trees_[j])) :
                       (Tree[l].connectivity = Tree[m].connectivity)
                           <=> /\ i = j
                               /\ SameComponent(LeafNodes(Tree, cq.trees_[i]),
                                                Tree[l].node, Tree[m].node,
                                                i = 2)
        /\ cq.a = IF Len(cq.trees_) >= 2
                  THEN Cardinality(ComponentsOf(LeafNodes(Tree, cq.trees_[2]),
                                                TRUE))
                  ELSE 0
        /\ cq.b = Cardinality(UNION {ComponentsOf(LeafNodes(Tree, cq.trees_[i]),
                                                  FALSE) : i \in Slices \ {2}})

\* The vertices at the leaves of the trees before the last one, T0..T(k-1),
\* of the running divide_md_tree call.
EarlierLeaves == AllLeaves(Tree, SubSeq(top.trees, 1, Len(top.trees) - 1))

\* C19: in a conquer_md_tree call on T0..Tk, k' = k exactly when G[S] is
\* connected; all leaves y of Tk agree on whether alpha(y) meets the leaves
\* of T0..T(k-1); and when k' = k - 1 the leaves of Tk are the vertices of
\* S that the pivot does not reach.
C19_Connected ==
    At("refinement") =>
        LET Lk == LeafNodes(Tree, Last(top.trees))
        IN  /\ (cq.k_ = cq.k) <=> ConnectedIn(top.s, FALSE)
            /\ cq.k_ \in {cq.k, cq.k - 1}
            /\ \A y \in Lk, z \in Lk :
                   (alpha[y] \cap EarlierLeaves # {})
                       <=> (alpha[z] \cap EarlierLeaves # {})
            /\ cq.k_ = cq.k - 1 =>
                   Lk = top.s \ ReachIn(top.s, {top.x}, FALSE)

\* C19 witness: a conquer_md_tree call has found the graph disconnected,
\* with two slices or more and two leaves or more in the last tree.
C19_Witness ==
    /\ At("refinement")
    /\ cq.k >= 2
    /\ cq.k_ = cq.k - 1
    /\ Cardinality(LeafNodes(Tree, Last(top.trees))) >= 2

----------------------------------------------------------------------------
\* The contract of divide_md_tree

\* C20: a call divide_md_tree(S, P) returns a tree whose leaves are the
\* vertices of S, each once, and a partition with the vertices of P (so
\* none of S) in which every class is a subset of one class of P.
C20_DivideContract ==
    [][Len(stack') < Len(stack) =>
          LET f  == top
              t  == IF Len(stack) = 1 THEN result'
                    ELSE Last(stack'[Len(stack')].trees)
              ls == leaves(Tree', t)
              P1 == ClassSets(PartitionClass', head')
          IN  /\ \A i \in 1..Len(ls) : Tree'[ls[i]].node # None
              /\ {Tree'[ls[i]].node : i \in 1..Len(ls)} = f.s
              /\ Len(ls) = Cardinality(f.s)
              /\ UNION Range(P1) = UNION Range(f.p)
              /\ f.s \cap UNION Range(P1) = {}
              /\ \A i \in 1..Len(P1) : \E j \in 1..Len(f.p) : P1[i] \subseteq f.p[j]
      ]_vars

\* C20 witness: a recursive call made with a partition of two classes or
\* more, on a set S of two vertices or more disjoint from them, has
\* returned its tree to its caller.
C20_Witness ==
    /\ At("loop")
    /\ Len(stack) >= 2
    /\ Len(top.p) >= 2
    /\ top.s \cap UNION Range(top.p) = {}
    /\ Len(top.trees) >= 2
    /\ Cardinality(LeafNodes(Tree, Last(top.trees))) >= 2

\* C21: in the partition a call divide_md_tree(S, P) returns, every vertex
\* of S is adjacent to all vertices of a class or to none of them, for
\* every class.
C21_Uniform ==
    [][Len(stack') < Len(stack) =>
          LET P1 == ClassSets(PartitionClass', head')
          IN  \A v \in top.s : \A i \in 1..Len(P1) :
                  adjacent[v] \cap P1[i] = {} \/ P1[i] \subseteq adjacent[v]
      ]_vars

\* C21 witness: a recursive call on two vertices or more has returned a
\* partition in which one of its vertices is adjacent to all of one class
\* and to none of another.
C21_Witness ==
    /\ At("loop")
    /\ Len(top.trees) >= 2
    /\ LET S  == LeafNodes(Tree, Last(top.trees))
           P1 == ClassSets(PartitionClass, head)
       IN  /\ Cardinality(S) >= 2
           /\ \E v \in S : \E i, j \in 1..Len(P1) :
                  /\ P1[i] \subseteq adjacent[v]
                  /\ P1[j] \cap adjacent[v] = {}

----------------------------------------------------------------------------
\* The ordered partition

RECURSIVE RefinedSets(_, _)
\* A sequence of sets in which every set that N(x) cuts in two is replaced
\* by its part inside N(x) followed by its part outside.
RefinedSets(P, adjx) ==
    IF P = <<>> THEN <<>>
    ELSE LET a == Head(P) \cap adjx
             b == Head(P) \ a
         IN  (IF a # {} /\ b # {} THEN <<a, b>> ELSE <<Head(P)>>)
                 \o RefinedSets(Tail(P), adjx)

\* The linked classes are non-empty and pairwise disjoint, next and
\* previous are each other's inverse on them, the head has no previous.
LinkedClasses ==
    LET cs == Classes(PartitionClass, head)
        L  == Range(cs)
    IN  /\ \A c \in L : PartitionClass[c].nodes # {}
        /\ \A i, j \in 1..Len(cs) :
               i # j => PartitionClass[cs[i]].nodes \cap PartitionClass[cs[j]].nodes = {}
        /\ \A c, d \in L :
               PartitionClass[c].next = d <=> PartitionClass[d].previous = c
        /\ \A c \in L : PartitionClass[c].next = None \/ PartitionClass[c].next \in L
        /\ head # None => PartitionClass[head].previous = None

\* C22: at every point of a run the classes linked in the ordered
\* partition are non-empty and pairwise disjoint, their previous and next
\* links are consistent and the head has no previous; and the refinement
\* step puts the two parts of a class, the part in N(x) first, at the
\* position the class had.
C22_Partition ==
    /\ []LinkedClasses
    /\ [][At("refine") /\ Len(stack') = Len(stack) =>
             ClassSets(PartitionClass', head') =
                 RefinedSets(ClassSets(PartitionClass, head), adjacent[top.x])
         ]_vars

\* C22 witness: the refinement has replaced a class that had a class
\* before it.
C22_Witness ==
    /\ At("split")
    /\ \E i \in 2..Len(top.p) :
           /\ top.p[i] \cap adjacent[top.x] # {}
           /\ top.p[i] \ adjacent[top.x] # {}
    /\ Len(ClassSets(PartitionClass, head)) > Len(top.p)

----------------------------------------------------------------------------
\* The refinement of the slice trees

\* tree_refinement has processed the last leaf of the last tree.
AfterRefinement ==
    /\ At("refine_leaf")
    /\ cq.todo[2] = <<>>
    /\ cq.todo[1] = Len(cq.trees_)

\* Every leaf of the trees behind tree i is adjacent to all the leaves
\* below u or to none of them.
UniformBelow(u, i) ==
    \A j \in (i + 1)..Len(cq.trees_) :
        \A x \in LeafNodes(Tree, cq.trees_[j]) :
            \/ adjacent[x] \cap LeafNodes(Tree, u) = {}
            \/ LeafNodes(Tree, u) \subseteq adjacent[x]

\* Neither u nor a descendant of u is labelled DEAD.
NoDeadBelow(u) ==
    \A d \in Range(Iter(Tree, u)) : Tree[d].label # "DEAD"

\* C23: after tree_refinement, for each node u of a slice tree Ti, every
\* leaf of the slices Lj, j > i, is adjacent to all leaves below u or to
\* none of them exactly when neither u nor a descendant of u is DEAD.
C23_DeadIffMixed ==
    AfterRefinement =>
        \A i \in 1..Len(cq.trees_) :
            \A u \in Range(Iter(Tree, cq.trees_[i])) :
                UniformBelow(u, i) <=> NoDeadBelow(u)

\* factorize has returned and the permutation is not built yet.
AfterFactorize == At("permutation")

\* M is a module of the graph induced on the vertex set V.
IsModuleIn(M, V) ==
    \A v \in V \ M : adjacent[v] \cap M = {} \/ M \subseteq adjacent[v]

\* C24: after factorize, for every leaf of the slice trees T1..Tk' the
\* leaves below leaf.get_root() form a module of the graph induced on the
\* leaves of T0..Tk', and no node keeps a DEAD or ZOMBIE label.
C24_RootsAreModules ==
    AfterFactorize =>
        /\ \A i \in 2..Len(cq.trees_) :
               \A leaf \in Range(leaves(Tree, cq.trees_[i])) :
                   IsModuleIn(LeafNodes(Tree, get_root(Tree, leaf)),
                              AllLeaves(Tree, cq.trees_))
        /\ Labelled(Tree) = {}

\* The leaves of every slice tree that carry one connectivity label are
\* consecutive in the left-to-right order of the leaves.
LabelsConsecutive ==
    \A i \in 2..Len(cq.trees_) :
        LET ls == leaves(Tree, cq.trees_[i])
        IN  \A p, q, r \in 1..Len(ls) :
                /\ p < q /\ q < r
                /\ Tree[ls[p]].connectivity = Tree[ls[r]].connectivity
                => Tree[ls[q]].connectivity = Tree[ls[p]].connectivity

\* The vertex sets of the groups of a list of (co-)components.
GroupSets(cs, field) ==
    {{Tree[t].node : t \in cs[i][field]} : i \in 1..Len(cs)}

\* The grouping gives as many groups as label_by_component counted.
GroupsAsCounted ==
    LET sigma == pivot_factorizing_permutation(Tree, cq.trees_)[2]
    IN  /\ Len(sigma.co_components) = cq.a
        /\ Len(sigma.components) = cq.b

\* The groups are the co-components of G[L1] and the components of the
\* G[Li], i > 1.
GroupsAreComponents ==
    LET sigma == pivot_factorizing_permutation(Tree, cq.trees_)[2]
    IN  /\ GroupSets(sigma.co_components, "co_component") =
               IF Len(cq.trees_) >= 2
               THEN ComponentsOf(LeafNodes(Tree, cq.trees_[2]), TRUE)
               ELSE {}
        /\ GroupSets(sigma.components, "component") =
               UNION {ComponentsOf(LeafNodes(Tree, cq.trees_[i]), FALSE) :
                          i \in 3..Len(cq.trees_)}

\* C25: after tree_refinement and factorize the leaves of a slice tree
\* that share a connectivity label are consecutive, and the grouping of
\* pivot_factorizing_permutation yields exactly one group per co-component
\* of G[L1] and one per component of G[Li], i > 1, as many groups as
\* label_by_component counted.
C25_Groups ==
    AfterFactorize =>
        /\ LabelsConsecutive
        /\ GroupsAsCounted
        /\ GroupsAreComponents

----------------------------------------------------------------------------
\* build_spine

\* build_spine is running and its loop condition holds.
InSpineLoop ==
    /\ At("spine")
    /\ cq.l # Len(cq.sigma.co_components) \/ cq.r # Len(cq.sigma.components)

\* build_spine has left its loop.
SpineDone ==
    /\ At("spine")
    /\ cq.l = Len(cq.sigma.co_components) /\ cq.r = Len(cq.sigma.components)

\* The placeholder leaves of the spine that hold the set c.
PlaceholdersOf(c) ==
    {t \in Range(Iter(Tree, cq.tree)) :
        Tree[t].type = "NODE" /\ Tree[t].node = None /\ Tree[t].component = c}

\* Every co-component and every component of sigma is held by exactly one
\* leaf of the spine, and that leaf has a parent.
PlacedOnce ==
    /\ \A i \in 1..Len(cq.sigma.co_components) :
           LET ps == PlaceholdersOf(cq.sigma.co_components[i].co_component)
           IN  Cardinality(ps) = 1 /\ \A t \in ps : Tree[t].parent # None
    /\ \A i \in 1..Len(cq.sigma.components) :
           LET ps == PlaceholdersOf(cq.sigma.components[i].component)
           IN  Cardinality(ps) = 1 /\ \A t \in ps : Tree[t].parent # None

\* C26: for every permutation pivot_factorizing_permutation produces,
\* build_spine terminates with l = a and r = b: no iteration stops with an
\* index out of the lists (the recursion of the PRIME limits included), l
\* and r never pass a and b, and every iteration of the loop moves l or r
\* forward, so that a + b - l - r falls until the loop is left; every
\* iteration puts at least one (co-)component into its module, and every
\* co-component and component is a placeholder child of exactly one node
\* of the spine.
C26_SpineTerminates ==
    /\ []~At("IndexError")
    /\ [](At("spine") => /\ cq.l <= Len(cq.sigma.co_components)
                         /\ cq.r <= Len(cq.sigma.components))
    /\ [][InSpineLoop =>
             /\ cq'.l >= cq.l /\ cq'.r >= cq.r
             /\ cq'.l + cq'.r > cq.l + cq.r
             /\ Len(Tree'[cq'.tree].children) >= 2
         ]_vars
    /\ [](SpineDone => PlacedOnce)

\* C26 witness: build_spine has left its loop after two iterations or
\* more, one of them for a PRIME module, on a permutation of four
\* (co-)components or more.
C26_Witness ==
    /\ SpineDone
    /\ Len(cq.sigma.co_components) + Len(cq.sigma.components) >= 4
    /\ Len(ancestors(Tree, cq.sigma.pivot)) >= 2
    /\ \E u \in Range(ancestors(Tree, cq.sigma.pivot)) : Tree[u].type = "PRIME"

\* The iteration of build_spine that comes next finds neither a SERIES nor
\* a PARALLEL module and enters the PRIME branch.
EntersPrime ==
    /\ InSpineLoop
    /\ SeriesEnd(cq.sigma, cq.l + 1, cq.r) = cq.l
    /\ ParallelEnd(cq.sigma, cq.l, cq.r + 1) = cq.r

\* C27: whenever build_spine enters the PRIME branch, l < a and r < b
\* before the increments, and the limits stay within 1..a and 1..b, so no
\* index i - 1 leaves the lists or wraps to -1.
C27_PrimeInRange ==
    EntersPrime =>
        LET a   == Len(cq.sigma.co_components)
            b   == Len(cq.sigma.components)
            mod == SpineModule(cq.sigma, cq.l, cq.r)
        IN  /\ cq.l < a /\ cq.r < b
            /\ mod.ok
            /\ mod.cc # {} /\ mod.cc \subseteq 1..a
            /\ mod.c # {} /\ mod.c \subseteq 1..b
            /\ mod.l <= a /\ mod.r <= b

\* C27 witness: the PRIME branch is entered after an earlier iteration, and
\* widens its limits beyond the first co-component and component.
C27_Witness ==
    /\ EntersPrime
    /\ cq.l + cq.r >= 1
    /\ LET mod == SpineModule(cq.sigma, cq.l, cq.r)
       IN  mod.ok /\ (mod.l > cq.l + 1 \/ mod.r > cq.r + 1)

----------------------------------------------------------------------------
\* Tree.replace_children on its own

MaxChildren == 4

MaxReplaced == 2

\* A node of one of the three inner types with 2..MaxChildren leaves as
\* children, all labelled with one tree_index as tree_refinement leaves
\* them.
InitTree ==
    /\ nodes = {}
    /\ adjacent = <<>>
    /\ alpha = <<>>
    /\ active_alpha = <<>>
    /\ container = <<>>
    /\ \E t \in {"SERIES", "PARALLEL", "PRIME"}, k \in 2..MaxChildren, i \in 0..2 :
           Tree = <<[NewTree(t, None, {}) EXCEPT
                        !.children = [j \in 1..k |-> j + 1], !.tree_index = i]>>
                  \o [j \in 1..k |-> [NewTree("NODE", j, {}) EXCEPT
                                         !.parent = 1, !.tree_index = i]]
    /\ PartitionClass = <<>>
    /\ head = None
    /\ stack = <<>>
    /\ cq = NoConquer
    /\ result = None
    /\ call = [mode |-> "tree", pi |-> <<>>,
               prev |-> [modules |-> {}, internal |-> 0]]
    /\ op = Op("Tree", None, None, "None")

\* u.replace_children(children) for a node u and a non-empty list of
\* children of u, in the order group_children gives them; call.pi keeps the
\* list, op.v the node returned.
ReplaceChildren ==
    \E u \in 1..Len(Tree) :
        /\ Len(Tree) < MaxChildren + 1 + MaxReplaced
        /\ \E S \in SUBSET Range(Tree[u].children) \ {{}} :
              LET cs == SelectIn(Tree[u].children, S)
                  r  == replace_children(Tree, u, cs)
              IN  /\ Tree' = r[1]
                  /\ op' = Op("replace_children", u, r[2], "None")
                  /\ call' = [call EXCEPT !.pi = cs]
        /\ UNCHANGED <<nodes, adjacent, alpha, active_alpha, container,
                       PartitionClass, head, stack, cq, result>>

NextTree == ReplaceChildren

SpecTree == InitTree /\ [][NextTree]_vars

\* What replace_children does to the new node and to the children moved:
\* stated on a step from Tree to Tree' that calls it on op'.u with the
\* list call'.pi and returns op'.v.
NewNodeMade ==
    LET u   == op'.u
        new == op'.v
        cs  == call'.pi
    IN  /\ new \notin 1..Len(Tree)
        /\ Tree'[new].type = Tree[u].type
        /\ Tree'[new].children = cs
        /\ Tree'[new].children = SelectIn(Tree[u].children, Range(cs))
        /\ \A c \in Range(cs) : Tree'[c].parent = new
        /\ \E c \in Range(cs) : Tree'[new].tree_index = Tree[c].tree_index
        /\ Tree'[new].parent = u

\* The children list of u with the first of the removed children replaced
\* by the new node and the other removed children left out.
AtRemovedPosition(children, cs, new) ==
    LET first == CHOOSE i \in 1..Len(children) :
                     /\ children[i] \in Range(cs)
                     /\ \A j \in 1..(i - 1) : children[j] \notin Range(cs)
    IN  SelectOut(SubSeq(children, 1, first - 1), Range(cs)) \o <<new>>
            \o SelectOut(SubSeq(children, first + 1, Len(children)), Range(cs))

\* C28 as the spec states it: the new node has the parent's type, the
\* given children in their order and the tree_index of one of them, and
\* stands among the parent's children where the removed children stood.
C28_AsStated ==
    [][op'.name = "replace_children" =>
          /\ NewNodeMade
          /\ Tree'[op'.u].children =
                 AtRemovedPosition(Tree[op'.u].children, call'.pi, op'.v)
      ]_vars

\* C28 as the code has it: the new node has the parent's type, the given
\* children in their order and the tree_index of the first of them, and is
\* appended behind the children the parent keeps.
C28_Appended ==
    [][op'.name = "replace_children" =>
          /\ NewNodeMade
          /\ Tree'[op'.v].tree_index = Tree[call'.pi[1]].tree_index
          /\ Tree'[op'.u].children =
                 SelectOut(Tree[op'.u].children, Range(call'.pi)) \o <<op'.v>>
      ]_vars

\* C28 witness: replace_children has moved two children or more of the
\* first node, and a child that stood behind one of them was kept.
C28_Witness ==
    /\ op.name = "replace_children"
    /\ op.u = 1
    /\ Len(call.pi) >= 2
    /\ Tree[op.v].children = call.pi
    /\ \E c \in Range(Tree[1].children) \ {op.v} :
           \E d \in Range(call.pi) :
               /\ Tree[c].type = "NODE" /\ Tree[d].type = "NODE"
               /\ Tree[d].node < Tree[c].node

----------------------------------------------------------------------------
\* md_tree called again on the same Graph object

\* The graphs of up to three vertices and the cycle with a tail.
InitAgain ==
    /\ \E g \in {h \in SmallGraphs : h.n <= 3} \cup {CycleWithTail} :
           Called(g.n, AdjacentOf(g.n, g.E))
    /\ call = [mode |-> "first", pi |-> <<>>,
               prev |-> [modules |-> {}, internal |-> 0]]
    /\ op = Op("md_tree", None, None, "None")

\* md_tree has returned and is called on the same Graph object: the Node
\* objects keep alpha, active_alpha and container, the Tree objects of the
\* first call stay where they are, and divide_md_tree starts on all nodes
\* with a new Partition.
CallSameGraph ==
    /\ call.mode = "first"
    /\ result # None
    /\ call' = [mode |-> "again", pi |-> [v \in nodes |-> v],
                prev |-> ShapeOf(Tree, result)]
    /\ PartitionClass' = <<>>
    /\ head' = None
    /\ stack' = <<NewFrame(nodes, <<>>)>>
    /\ cq' = NoConquer
    /\ result' = None
    /\ UNCHANGED <<nodes, adjacent, alpha, active_alpha, container, Tree, op>>

NextAgain == Next \/ CallSameGraph

SpecAgain == InitAgain /\ [][NextAgain]_vars

\* C29: at every point of a md_tree run and for every vertex v, v.alpha is
\* a subset of v.adjacent, and v.alpha and v.active_alpha are disjoint.
C29_AlphaSets ==
    \A v \in nodes :
        /\ alpha[v] \subseteq adjacent[v]
        /\ alpha[v] \cap active_alpha[v] = {}

\* The step is the choice of a pivot by divide_md_tree.
PivotStep ==
    /\ At("pivot")
    /\ Len(stack') = Len(stack)
    /\ stack'[Len(stack')].pc = "refine"

\* The leaves made for vertex v: divide_md_tree makes one each time v is
\* the pivot.
LeavesOf(v) ==
    {t \in 1..Len(Tree) : Tree[t].type = "NODE" /\ Tree[t].node = v}

\* In the first run every vertex has been the pivot exactly once when
\* md_tree returns, and alpha is empty then.
PickedOnce ==
    Returned => \A v \in nodes : Cardinality(LeavesOf(v)) = 1 /\ alpha[v] = {}

\* In the first run the choice of pivot x adds x to y.alpha exactly for the
\* neighbours y of x not chosen before, and x was in neither set of y.
RecordedOnce ==
    (call.mode = "first" /\ PivotStep) =>
        LET x == stack'[Len(stack')].x
        IN  /\ LeavesOf(x) = {}
            /\ \A y \in nodes :
                   IF y \in adjacent[x] /\ LeavesOf(y) = {}
                   THEN /\ x \notin alpha[y] \cup active_alpha[y]
                        /\ y \notin alpha[x] \cup active_alpha[x]
                        /\ alpha'[y] = alpha[y] \cup {x}
                   ELSE alpha'[y] = alpha[y]

\* An entry leaves alpha only in the pass of tree_refinement for its
\* vertex, and it is in active_alpha after that pass.
MovedOnce ==
    \A y \in nodes :
        alpha[y] \ alpha'[y] # {} =>
            /\ At("refine_leaf")
            /\ cq.todo[2] # <<>>
            /\ Tree[Head(cq.todo[2])].node = y
            /\ active_alpha'[y] = alpha[y] \ alpha'[y]
            /\ alpha'[y] \subseteq alpha[y]

\* The second call on the same Graph object returns the tree of the first
\* call, up to the order of children.
SameTreeAgain ==
    (call.mode = "again" /\ result # None) =>
        ShapeOf(Tree, result) = call.prev

====
